---- MODULE Spec2Model ----
(***************************************************************************)
(* USD test runner (src/src/main.cpp): command line parsing, the           *)
(* TestRunner engine (registry, selection, execution, report, export) and  *)
(* the four analyzers run on the stage a runTests call opens.              *)
(*                                                                         *)
(* Text is modelled structurally: a message is a sequence of lines, a line *)
(* is a tuple of strings (the literal prefix followed by the values that   *)
(* are appended to it).  The scene composition library (pxr) is the        *)
(* environment: a stage is a record holding what the library answers to    *)
(* each query the analyzers make.                                          *)
(***************************************************************************)
EXTENDS Integers, Sequences, FiniteSets, TLC

VARIABLES
    argv,        \* argv[1 .. argc-1] of main
    pc,          \* position of the process
    exitStatus,  \* -1 while running, else the status the process ended with
    helpShown,   \* number of displayHelp() calls
    config,      \* TestConfig handed to runTests
    tests,       \* TestRunner::tests, the registry
    scene,       \* the file at usdFilePath, as UsdStage::Open reads it
    stage,       \* the local stage of the runTests call in progress
    opens,       \* number of UsdStage::Open calls made
    idx,         \* position of the range-for of runTests in tests
    results,     \* TestRunner::results
    output,      \* TestRunner::output (the stringstream)
    outFile,     \* the file named by -output
    calls,       \* registry positions invoked by the current runTests call
    probes,      \* SetVariantSelection calls of the last validateVariants
    entry,       \* the stage on entry of the last validateVariants
    leftStage,   \* the stage as the last validateVariants left it
    history,     \* results of each completed past runTests call
    runs         \* number of runTests calls started

vars == <<argv, pc, exitStatus, helpShown, config, tests, scene, stage, opens,
          idx, results, output, outFile, calls, probes, entry, leftStage,
          history, runs>>

\* ------------------------------------------------------------------ bounds
MaxArgs == 4
MaxVariants == 3
MaxTests == 3
MaxRuns == 2

\* ----------------------------------------------------------------- helpers
RECURSIVE Flatten(_)
Flatten(ss) == IF ss = <<>> THEN <<>> ELSE Head(ss) \o Flatten(Tail(ss))

SeqsUpTo(S, n) == UNION {[1..k -> S] : k \in 0..n}

NoDup(s) == \A i, j \in DOMAIN s : s[i] = s[j] => i = j

\* "- " + error + "\n" for each error, after the heading line
Bulleted(heading, errors) ==
    <<<<heading>>>> \o [i \in DOMAIN errors |-> <<"- ">> \o errors[i]]

TestResult(testName, passed, message) ==
    [testName |-> testName, passed |-> passed, message |-> message]

\* -------------------------------------------------------------- TestConfig
TestConfig ==
    [runGeometry |-> TRUE, runShaders |-> TRUE, runLayers |-> TRUE,
     runVariants |-> TRUE, outputPath |-> ""]

hasEnabledTests(c) ==
    c.runGeometry \/ c.runShaders \/ c.runLayers \/ c.runVariants

\* ------------------------------------------------------------------- stage
\* A null UsdStageRefPtr
NullStage == [null |-> TRUE]

\* UsdStage::Open(usdFilePath)
Open(sc) == IF sc.openable THEN sc ELSE NullStage

\* stage->Traverse(): the default traversal leaves inactive prims out
Traverse(st) == SelectSeq(st.nodes, LAMBDA n : n.active)

\* stage->TraverseAll(): every prim
TraverseAll(st) == st.nodes

\* The selections a prim's variant sets hold
Selections(n) == {n.axes[a].selection : a \in DOMAIN n.axes}

\* prim.IsValid() / GetPrimAtPath(path).IsValid(): a prim whose selected
\* variant removes it from the composed tree is not valid
IsValid(n) == n.valid /\ Selections(n) \cap n.invalidIn = {}

\* What extentAttr yields on the composed prim: the selected variant
\* contributes the extent opinion
ExtentOf(n) ==
    IF Selections(n) \cap n.degenerateIn # {} THEN "degenerate" ELSE n.extent

\* ---------------------------------------------------------- validateGeometry
GeometryErrors(n) ==
    IF ~IsValid(n)
    THEN <<<<"Encountered an invalid prim in the scene: ", n.path>>>>
    ELSE IF n.type = "xform"
    THEN LET bad == SelectSeq(n.ops, LAMBDA op : ~op)
         IN  [i \in DOMAIN bad |->
                 <<"Invalid transform operation found at: ", n.path>>]
    ELSE IF n.type = "mesh"
    THEN (CASE ExtentOf(n) = "missing" ->
                   <<<<"Extent missing for Mesh at path: ", n.path>>>>
            [] ExtentOf(n) = "unreadable" ->
                   <<<<"Invalid extent bounds at: ", n.path>>>>
            [] ExtentOf(n) = "degenerate" ->
                   <<<<"Degenerate geometry found at: ", n.path>>>>
            [] OTHER -> <<>>)
         \o (IF n.points = "unreadable"
             THEN <<<<"Invalid point data at: ", n.path>>>>
             ELSE <<>>)
    ELSE <<>>

\* The errors vector of validateGeometry after the traversal
GeometryFindings(st) ==
    LET prims == Traverse(st)
    IN  Flatten([i \in DOMAIN prims |-> GeometryErrors(prims[i])])

validateGeometry(st) ==
    IF st.null
    THEN TestResult("Validate Geometry", FALSE, <<<<"Invalid stage reference.">>>>)
    ELSE IF ~st.root
    THEN TestResult("Validate Geometry", FALSE,
                    <<<<"No root prim found in the scene.">>>>)
    ELSE LET prims == Traverse(st)
             foundGeometryPrim ==
                 \E i \in DOMAIN prims :
                     IsValid(prims[i]) /\ prims[i].type \in {"xform", "mesh"}
             errors == GeometryFindings(st)
         IN  IF ~foundGeometryPrim
             THEN TestResult("Validate Geometry", TRUE,
                      <<<<"No geometry found in the scene, but that's not required.">>>>)
             ELSE IF errors # <<>>
             THEN TestResult("Validate Geometry", FALSE,
                      Bulleted("Geometry validation failed with the following issues:",
                               errors))
             ELSE TestResult("Validate Geometry", TRUE,
                      <<<<"All geometry prims are valid with proper transforms and bounds.">>>>)

\* ----------------------------------------------------------- validateShaders
InputErrors(n) ==
    LET bad == SelectSeq(n.inputs, LAMBDA in : in.source = "invalid")
    IN  [i \in DOMAIN bad |->
            <<"Invalid shader connection at: ", bad[i].name, " on prim ", n.path>>]

ShaderErrors(n) ==
    IF ~IsValid(n)
    THEN <<<<"Invalid prim encountered during shader validation: ", n.path>>>>
    ELSE IF n.type = "shader"
    THEN (IF n.shaderId = ""
          THEN <<<<"Missing or invalid shader ID at: ", n.path>>>>
          ELSE <<>>)
         \o (IF n.inputs = <<>>
             THEN <<<<"Shader has no input parameters at: ", n.path>>>>
             ELSE InputErrors(n))
         \o (IF n.sourceAsset = "empty"
             THEN <<<<"Missing shader source asset path at: ", n.path>>>>
             ELSE <<>>)
         \o (IF n.binding = "invalid"
             THEN <<<<"Invalid material binding at: ", n.parent>>>>
             ELSE <<>>)
    ELSE <<>>

\* The errors vector of validateShaders after the traversal
ShaderFindings(st) ==
    LET prims == Traverse(st)
    IN  Flatten([i \in DOMAIN prims |-> ShaderErrors(prims[i])])

validateShaders(st) ==
    IF st.null
    THEN TestResult("Validate Shaders", FALSE, <<<<"Invalid stage reference.">>>>)
    ELSE LET prims == Traverse(st)
             foundAnyShader ==
                 \E i \in DOMAIN prims : IsValid(prims[i]) /\ prims[i].type = "shader"
             errors == ShaderFindings(st)
         IN  IF ~foundAnyShader
             THEN TestResult("Validate Shaders", TRUE,
                      <<<<"No shaders found in the scene, but that's acceptable.">>>>)
             ELSE IF errors # <<>>
             THEN TestResult("Validate Shaders", FALSE,
                      Bulleted("Shader validation failed with the following issues:",
                               errors))
             ELSE TestResult("Validate Shaders", TRUE,
                      <<<<"All shaders and their connections are valid.">>>>)

\* ---------------------------------------------------- validateLayerStructure
\* SdfLayer::FindOrOpen on each sublayer path, then on each external
\* reference of a sublayer that opened
SubLayerErrors(sub) ==
    IF ~sub.resolves
    THEN <<<<"Unresolved sublayer: ", sub.path>>>>
    ELSE LET bad == SelectSeq(sub.refs, LAMBDA r : ~r.resolves)
         IN  [i \in DOMAIN bad |->
                 <<"Broken external reference in sublayer: ", bad[i].path>>]

\* References, then payloads, of the layer's root prim spec
RootSpecErrors(layer, i) ==
    IF layer.hasRootSpec
    THEN LET badRefs == SelectSeq(layer.refs,
                            LAMBDA r : r.assetPath # "" /\ ~r.resolves)
             badPayloads == SelectSeq(layer.payloads,
                                LAMBDA r : r.assetPath # "" /\ ~r.resolves)
         IN  [k \in DOMAIN badRefs |->
                  <<"Broken reference in layer: ", badRefs[k].assetPath>>]
             \o [k \in DOMAIN badPayloads |->
                  <<"Broken payload in layer: ", badPayloads[k].assetPath>>]
    ELSE <<<<"Layer at index ", ToString(i - 1),
             " has no root prim (possibly a library or session layer).">>>>

\* LayerLoop with the root prim spec of a layer examined before its
\* sublayers
RECURSIVE LayerLoopRootFirst(_, _, _, _)
LayerLoopRootFirst(layerStack, i, layerIds, errors) ==
    IF i > Len(layerStack) THEN errors
    ELSE LET layer == layerStack[i] IN
         IF layer.null
         THEN LayerLoopRootFirst(layerStack, i + 1, layerIds,
                  Append(errors, <<"Broken reference at layer index ", ToString(i - 1)>>))
         ELSE LayerLoopRootFirst(layerStack, i + 1, layerIds \cup {layer.id},
                  errors
                  \o (IF layer.id \in layerIds
                      THEN <<<<"Duplicate layer identifier found: ", layer.id>>>>
                      ELSE <<>>)
                  \o RootSpecErrors(layer, i)
                  \o Flatten([k \in DOMAIN layer.subs |-> SubLayerErrors(layer.subs[k])]))

\* The loop over layerStack, i counted from 1 (index i - 1 in the source)
RECURSIVE LayerLoop(_, _, _, _)
LayerLoop(layerStack, i, layerIds, errors) ==
    IF i > Len(layerStack) THEN errors
    ELSE LET layer == layerStack[i] IN
         IF layer.null
         THEN LayerLoop(layerStack, i + 1, layerIds,
                  Append(errors, <<"Broken reference at layer index ", ToString(i - 1)>>))
         ELSE LayerLoop(layerStack, i + 1, layerIds \cup {layer.id},
                  errors
                  \o (IF layer.id \in layerIds
                      THEN <<<<"Duplicate layer identifier found: ", layer.id>>>>
                      ELSE <<>>)
                  \o Flatten([k \in DOMAIN layer.subs |-> SubLayerErrors(layer.subs[k])])
                  \o RootSpecErrors(layer, i))

\* The errors vector of validateLayerStructure after the loop, for a stack
\* whose first layer is not null (lines 421-481)
LayerFindings(layerStack) ==
    LET rootLayer == layerStack[1]
        first == IF ~rootLayer.anonymous /\ ~rootLayer.hasDefaultPrim
                 THEN <<<<"Root layer missing default prim specification: ",
                          rootLayer.id>>>>
                 ELSE <<>>
    IN  LayerLoop(layerStack, 1, {}, first)

validateLayerStructure(st) ==
    IF st.null
    THEN TestResult("Validate Layer Structure", FALSE, <<<<"Invalid stage reference.">>>>)
    ELSE LET layerStack == st.layers IN
         IF layerStack = <<>>
         THEN TestResult("Validate Layer Structure", FALSE, <<<<"Layer stack is empty.">>>>)
         ELSE LET rootLayer == layerStack[1] IN
              IF rootLayer.null
              THEN TestResult("Validate Layer Structure", FALSE,
                       <<<<"The first layer in the stack is null.">>>>)
              ELSE LET errors == LayerFindings(layerStack)
                   IN  IF errors # <<>>
                       THEN TestResult("Validate Layer Structure", FALSE,
                                Bulleted("Layer structure validation failed with the following issues:",
                                         errors))
                       ELSE TestResult("Validate Layer Structure", TRUE,
                                <<<<"Layer stack and all references are valid.">>>>)

\* ---------------------------------------------------------- validateVariants
\* varSet.SetVariantSelection(v) on axis a of prim n: when the call applies
\* the axis holds v, when it fails the selection is as before
SetVariantSelection(st, n, a, v, applies) ==
    IF applies THEN [st EXCEPT !.nodes[n].axes[a].selection = v] ELSE st

\* The library's answer to the next SetVariantSelection call of a walk; a
\* call past the answers the stage holds applies
NextAnswer(acc) ==
    IF acc.k + 1 \in DOMAIN acc.plan THEN acc.plan[acc.k + 1] ELSE TRUE

\* Lines 572-575: the restoring call, made when the selection read at line
\* 549 is not empty.  The flag it returns is discarded: when the library
\* refuses the call nothing is recorded and the selection stays as the walk
\* left it.
RestoreSelection(acc, n, a, originalSelection) ==
    IF originalSelection # ""
    THEN LET applies == NextAnswer(acc)
             st2 == SetVariantSelection(acc.stage, n, a, originalSelection, applies)
         IN  [acc EXCEPT !.k = @ + 1, !.stage = st2,
                         !.log = Append(@, [node |-> n, axis |-> a,
                                            variant |-> originalSelection,
                                            applied |-> applies,
                                            resolved |-> IsValid(st2.nodes[n]),
                                            restoring |-> TRUE])]
    ELSE acc

\* The SetVariantSelection calls validateVariants makes on a stage: one per
\* non-empty variant name of each walked set, and the restoring call of each
\* walked set that holds a selection
NumSelectionCalls(st) ==
    LET count(n) ==
            IF ~IsValid(n) THEN <<>>
            ELSE Flatten([a \in DOMAIN n.axes |->
                     IF n.axes[a].name = "" \/ n.axes[a].variants = <<>> THEN <<>>
                     ELSE SelectSeq(n.axes[a].variants, LAMBDA v : v # "")
                          \o (IF n.axes[a].selection # ""
                              THEN <<n.axes[a].selection>> ELSE <<>>)])
    IN  Len(Flatten([i \in DOMAIN st.nodes |-> count(st.nodes[i])]))

\* One iteration of the loop over variantNames (lines 551-570)
ProbeVariant(acc, n, a, i) ==
    LET node == acc.stage.nodes[n]
        axis == node.axes[a]
        variantName == axis.variants[i]
    IN  IF variantName = ""
        THEN [acc EXCEPT !.errors = Append(@,
                 <<"Empty variant name in set '", axis.name, "' at: ", node.path>>)]
        ELSE LET applies == NextAnswer(acc)
                 st2 == SetVariantSelection(acc.stage, n, a, variantName, applies)
                 made == [acc EXCEPT !.k = @ + 1, !.stage = st2,
                              !.log = Append(@, [node |-> n, axis |-> a,
                                                 variant |-> variantName,
                                                 applied |-> applies,
                                                 resolved |-> IsValid(st2.nodes[n]),
                                                 restoring |-> FALSE])]
             IN  IF ~applies
                 THEN [made EXCEPT !.errors = Append(@,
                          <<"Failed to set variant '", variantName, "' in set '",
                            axis.name, "' at: ", node.path>>)]
                 ELSE IF ~IsValid(st2.nodes[n])
                 THEN [made EXCEPT !.errors = Append(@,
                          <<"Prim became invalid after setting variant '", variantName,
                            "' in set '", axis.name, "' at: ", node.path>>)]
                 ELSE made

\* WalkVariants leaving the loop at the first variant that recorded an error
RECURSIVE WalkVariantsStopOnError(_, _, _, _)
WalkVariantsStopOnError(acc, n, a, i) ==
    IF i > Len(acc.stage.nodes[n].axes[a].variants) THEN acc
    ELSE LET next == ProbeVariant(acc, n, a, i)
         IN  IF Len(next.errors) > Len(acc.errors) THEN next
             ELSE WalkVariantsStopOnError(next, n, a, i + 1)

\* The loop over variantNames (lines 551-570)
RECURSIVE WalkVariants(_, _, _, _)
WalkVariants(acc, n, a, i) ==
    IF i > Len(acc.stage.nodes[n].axes[a].variants) THEN acc
    ELSE WalkVariants(ProbeVariant(acc, n, a, i), n, a, i + 1)

\* One iteration of the loop over setNames (lines 534-576)
VisitVariantSet(acc, n, a) ==
    LET node == acc.stage.nodes[n]
        axis == node.axes[a]
    IN  IF axis.name = ""
        THEN [acc EXCEPT !.errors = Append(@,
                 <<"Found a variant set with an empty name at: ", node.path>>)]
        ELSE IF axis.variants = <<>>
        THEN [acc EXCEPT !.errors = Append(@,
                 <<"Variant set '", axis.name, "' has no variants on prim: ", node.path>>)]
        ELSE LET originalSelection == axis.selection
             IN  RestoreSelection(WalkVariants(acc, n, a, 1), n, a, originalSelection)

RECURSIVE WalkVariantSets(_, _, _)
WalkVariantSets(acc, n, a) ==
    IF a > Len(acc.stage.nodes[n].axes) THEN acc
    ELSE WalkVariantSets(VisitVariantSet(acc, n, a), n, a + 1)

\* One iteration of the loop over TraverseAll (lines 520-577)
VisitPrim(acc, n) ==
    LET node == acc.stage.nodes[n]
    IN  IF ~IsValid(node)
        THEN [acc EXCEPT !.errors = Append(@,
                 <<"Encountered an invalid prim at: ", node.path>>)]
        ELSE WalkVariantSets(
                 [acc EXCEPT !.foundAnyVariants = @ \/ node.axes # <<>>], n, 1)

RECURSIVE WalkPrims(_, _)
WalkPrims(acc, n) ==
    IF n > Len(TraverseAll(acc.stage)) THEN acc
    ELSE WalkPrims(VisitPrim(acc, n), n + 1)

\* validateVariants on stage st: the result, the stage it leaves and the
\* probes it made; st.applies[k] tells whether the library applies the k-th
\* probe of a walk
validateVariants(st) ==
    IF st.null
    THEN [result |-> TestResult("Validate Variants", FALSE,
                                <<<<"Invalid stage reference.">>>>),
          stage |-> st, log |-> <<>>, errors |-> <<>>]
    ELSE LET end == WalkPrims([stage |-> st, errors |-> <<>>, plan |-> st.applies, k |-> 0,
                               log |-> <<>>, foundAnyVariants |-> FALSE], 1)
             result ==
                 IF ~end.foundAnyVariants
                 THEN TestResult("Validate Variants", TRUE,
                          <<<<"No variants found in the scene. That's acceptable.">>>>)
                 ELSE IF end.errors # <<>>
                 THEN TestResult("Validate Variants", FALSE,
                          Bulleted("Variant validation failed with the following issues:",
                                   end.errors))
                 ELSE TestResult("Validate Variants", TRUE,
                          <<<<"All variants and their selections are valid.">>>>)
         IN  [result |-> result, stage |-> end.stage, log |-> end.log,
              errors |-> end.errors]

\* ------------------------------------------------------------------ scenes
Plain(path) ==
    [path |-> path, valid |-> TRUE, active |-> TRUE, type |-> "other",
     ops |-> <<>>, extent |-> "ok", points |-> "ok", degenerateIn |-> {},
     shaderId |-> "", inputs |-> <<>>, sourceAsset |-> "none",
     binding |-> "none", parent |-> "/", axes |-> <<>>, invalidIn |-> {}]

Mesh(path) == [Plain(path) EXCEPT !.type = "mesh"]

Xform(path) == [Plain(path) EXCEPT !.type = "xform", !.ops = <<TRUE>>]

Shader(path) ==
    [Plain(path) EXCEPT !.type = "shader", !.shaderId = "UsdPreviewSurface",
        !.inputs = <<[name |-> "diffuseColor", source |-> "valid"]>>,
        !.sourceAsset = "ok", !.parent = "/mat"]

GeometryNodes ==
    { Plain("/a"),
      [Plain("/a") EXCEPT !.valid = FALSE],
      Xform("/a"),
      [Xform("/a") EXCEPT !.ops = <<TRUE, FALSE, FALSE>>],
      Mesh("/a"),
      [Mesh("/a") EXCEPT !.active = FALSE, !.extent = "missing"],
      [Mesh("/a") EXCEPT !.extent = "missing", !.points = "unreadable"],
      [Mesh("/a") EXCEPT !.extent = "unreadable"],
      [Mesh("/a") EXCEPT !.extent = "degenerate"],
      [Mesh("/a") EXCEPT !.points = "absent"] }

ShaderNodes ==
    { Shader("/mat/s"),
      [Shader("/mat/s") EXCEPT !.shaderId = ""],
      [Shader("/mat/s") EXCEPT !.inputs = <<>>, !.sourceAsset = "empty"],
      [Shader("/mat/s") EXCEPT !.inputs =
          <<[name |-> "diffuseColor", source |-> "invalid"],
            [name |-> "roughness", source |-> "none"]>>],
      [Shader("/mat/s") EXCEPT !.binding = "invalid", !.sourceAsset = "none"] }

Layer(id) ==
    [null |-> FALSE, id |-> id, anonymous |-> FALSE, hasDefaultPrim |-> TRUE,
     subs |-> <<>>, hasRootSpec |-> TRUE, refs |-> <<>>, payloads |-> <<>>]

NullLayer == [Layer("") EXCEPT !.null = TRUE]

GoodStack == <<Layer("root.usda")>>

LayerStacks ==
    { <<>>,
      <<NullLayer>>,
      GoodStack,
      <<[Layer("root.usda") EXCEPT !.hasDefaultPrim = FALSE]>>,
      <<[Layer("anon:1") EXCEPT !.anonymous = TRUE, !.hasDefaultPrim = FALSE]>>,
      <<Layer("root.usda"), NullLayer, Layer("root.usda")>>,
      <<Layer("root.usda"),
        [Layer("root.usda") EXCEPT
            !.subs = <<[path |-> "x.usda", resolves |-> FALSE, refs |-> <<>>]>>,
            !.hasRootSpec = FALSE],
        [Layer("root.usda") EXCEPT
            !.subs = <<[path |-> "y.usda", resolves |-> TRUE,
                        refs |-> <<[path |-> "r1.usda", resolves |-> FALSE]>>],
                       [path |-> "z.usda", resolves |-> FALSE, refs |-> <<>>]>>,
            !.payloads = <<[assetPath |-> "pay.usda", resolves |-> FALSE]>>]>>,
      <<[Layer("root.usda") EXCEPT !.hasDefaultPrim = FALSE, !.hasRootSpec = FALSE],
        [Layer("b.usda") EXCEPT
            !.subs = <<[path |-> "x.usda", resolves |-> FALSE, refs |-> <<>>],
                       [path |-> "y.usda", resolves |-> TRUE,
                        refs |-> <<[path |-> "r1.usda", resolves |-> FALSE],
                                   [path |-> "r2.usda", resolves |-> TRUE]>>]>>,
            !.refs = <<[assetPath |-> "", resolves |-> FALSE],
                       [assetPath |-> "ref.usda", resolves |-> FALSE]>>,
            !.payloads = <<[assetPath |-> "pay.usda", resolves |-> FALSE]>>]>> }

VariantNames == {"A", "B", "C"}

\* GetVariantNames(): distinct names, an empty one possible
VariantLists == {vl \in SeqsUpTo(VariantNames \cup {""}, MaxVariants) : NoDup(vl)}

Axis(name, variants, selection) ==
    [name |-> name, variants |-> variants, selection |-> selection]

\* A mesh with one variant set; variant "A" contributes a degenerate extent,
\* variant "C" removes the prim
VariantNodes ==
    { [Mesh("/v") EXCEPT !.axes = <<Axis("shape", vl, sel)>>,
                         !.degenerateIn = {"A"}, !.invalidIn = {"C"}] :
          vl \in VariantLists, sel \in {"", "A", "B"} }

\* Two prims, the second with an unnamed set, an empty set and two sets
\* that hold variants
TwoPrims(sel1, sel2) ==
    << [Plain("/bad") EXCEPT !.valid = FALSE, !.active = FALSE,
                             !.axes = <<Axis("lod", <<"A">>, "")>>],
       [Xform("/w") EXCEPT !.axes =
           << Axis("", <<"A">>, ""), Axis("none", <<>>, ""),
              Axis("lod", <<"A">>, sel1), Axis("look", <<"B", "">>, sel2) >>] >>

\* Two prims that are both probed: on the first, variant "C" removes the
\* prim, an empty name stands between two variants and a second set follows
ProbedPrims(sel) ==
    << [Mesh("/p") EXCEPT !.invalidIn = {"C"}, !.axes =
           << Axis("shape", <<"A", "", "C">>, "A"), Axis("look", <<"B">>, "") >>],
       [Xform("/q") EXCEPT !.axes = << Axis("lod", <<"A", "B">>, sel) >>] >>

Scene(nodes, layers) ==
    [null |-> FALSE, openable |-> TRUE, root |-> TRUE, nodes |-> nodes,
     layers |-> layers, applies |-> <<>>]

Unopenable == [Scene(<<>>, <<>>) EXCEPT !.openable = FALSE]

\* Every way the library can answer the SetVariantSelection calls made on
\* a scene
WithProbes(S) ==
    UNION { { [sc EXCEPT !.applies = ap] :
                ap \in [1..NumSelectionCalls(sc) -> BOOLEAN] } : sc \in S }

Scenes ==
    {Unopenable}
    \cup {Scene(<<n>>, GoodStack) : n \in GeometryNodes \cup ShaderNodes}
    \cup {Scene(<<Mesh("/a"), Shader("/mat/s")>>, ls) : ls \in LayerStacks}
    \cup WithProbes({Scene(<<n>>, GoodStack) : n \in VariantNodes})
    \cup WithProbes({Scene(TwoPrims(s1, s2), GoodStack) :
                        s1 \in {"", "A"}, s2 \in {"", "B"}})
    \cup WithProbes({Scene(ProbedPrims(sel), GoodStack) : sel \in {"", "B"}})

\* ---------------------------------------------------------- parseArguments
OnlyFlags == {"-only-geometry", "-only-shaders", "-only-layers", "-only-variants"}

SkipFlags == {"-skip-geometry", "-skip-shaders", "-skip-layers", "-skip-variants"}

\* The flags parseArguments looks for
KnownFlags == OnlyFlags \cup SkipFlags \cup {"-output", "-help"}

\* The tokens whose first character is '-' (line 650), the flags and the
\* strings no flag check names
DashTokens == KnownFlags \cup {"-x", "-", "--"}

\* The loop of lines 633-641: the set of arguments seen and the output path;
\* the token after an -output is taken as the path and not looked at again
RECURSIVE CollectArgs(_, _, _, _)
CollectArgs(av, i, args, outputPath) ==
    IF i > Len(av) THEN [args |-> args, outputPath |-> outputPath]
    ELSE IF av[i] = "-output" /\ i + 1 <= Len(av)
    THEN CollectArgs(av, i + 2, args \cup {av[i]}, av[i + 1])
    ELSE CollectArgs(av, i + 1, args \cup {av[i]}, outputPath)

\* Lines 655-682: the run flags the 'only' and 'skip' flags leave
ApplyFlags(c, args) ==
    IF "-only-geometry" \in args
    THEN [c EXCEPT !.runGeometry = TRUE, !.runShaders = FALSE,
                   !.runLayers = FALSE, !.runVariants = FALSE]
    ELSE IF "-only-shaders" \in args
    THEN [c EXCEPT !.runGeometry = FALSE, !.runShaders = TRUE,
                   !.runLayers = FALSE, !.runVariants = FALSE]
    ELSE IF "-only-layers" \in args
    THEN [c EXCEPT !.runGeometry = FALSE, !.runShaders = FALSE,
                   !.runLayers = TRUE, !.runVariants = FALSE]
    ELSE IF "-only-variants" \in args
    THEN [c EXCEPT !.runGeometry = FALSE, !.runShaders = FALSE,
                   !.runLayers = FALSE, !.runVariants = TRUE]
    ELSE [c EXCEPT
            !.runGeometry = IF "-skip-geometry" \in args THEN FALSE ELSE @,
            !.runShaders = IF "-skip-shaders" \in args THEN FALSE ELSE @,
            !.runLayers = IF "-skip-layers" \in args \/ "-skip-variants" \in args
                          THEN FALSE ELSE @]

\* Line 695-696: the combination the source rejects
OnlyWithSkip(onlyFlags, args) ==
    onlyFlags > 0 /\ ("-skip-geometry" \in args \/ "-skip-shaders" \in args
                      \/ "-skip-layers" \in args \/ "-only-variants" \in args)

\* HelpRequested looking for no -help at all
HelpIgnored(args) == FALSE

\* Line 644: -help is among the arguments seen
HelpRequested(args) == "-help" \in args

\* parseArguments(argc, argv): status -1 when it returns config, else the
\* status it exits with; helps counts the displayHelp() calls
parseArguments(av) ==
    LET got == CollectArgs(av, 1, {}, "")
        args == got.args
        start == [TestConfig EXCEPT !.outputPath = got.outputPath]
        cfg == ApplyFlags(start, args)
        onlyFlags == Cardinality(args \cap OnlyFlags)
    IN  IF HelpRequested(args)
        THEN [status |-> 0, config |-> start, helps |-> 1]
        ELSE IF Len(av) + 1 < 2 \/ av[1] \in DashTokens
        THEN [status |-> 1, config |-> start, helps |-> 1]
        ELSE IF onlyFlags > 1
        THEN [status |-> 1, config |-> cfg, helps |-> 1]
        ELSE IF OnlyWithSkip(onlyFlags, args)
        THEN [status |-> 1, config |-> cfg, helps |-> 1]
        ELSE IF ~hasEnabledTests(cfg)
        THEN [status |-> 1, config |-> cfg, helps |-> 1]
        ELSE [status |-> -1, config |-> cfg, helps |-> 0]

\* ------------------------------------------------------------- TestRunner
addTest(ts, id, test) == Append(ts, [id |-> id, test |-> test])

\* The registry main() builds (lines 757-760)
MainTests ==
    addTest(addTest(addTest(addTest(<<>>,
        "geometry", "validateGeometry"),
        "shaders", "validateShaders"),
        "layers", "validateLayerStructure"),
        "variants", "validateVariants")

\* Selected with the variants identifier answering to the layers flag
SelectedAliased(id, c) ==
    \/ id = "geometry" /\ c.runGeometry
    \/ id = "shaders" /\ c.runShaders
    \/ id = "layers" /\ c.runLayers
    \/ id = "variants" /\ c.runLayers

\* The condition of lines 120-123
Selected(id, c) ==
    \/ id = "geometry" /\ c.runGeometry
    \/ id = "shaders" /\ c.runShaders
    \/ id = "layers" /\ c.runLayers
    \/ id = "variants" /\ c.runVariants

\* The line report() prints and appends to output
ResultLine(result) ==
    <<"[", IF result.passed THEN "PASS" ELSE "FAIL", "] ",
      result.testName, ": ", result.message>>

\* The two texts summarize() prints and appends to output
summarize(rs) ==
    LET passed == Cardinality({i \in DOMAIN rs : rs[i].passed})
        failed == Cardinality({i \in DOMAIN rs : ~rs[i].passed})
        summary == <<"Summary:", "  Passed: ", ToString(passed),
                     "  Failed: ", ToString(failed)>>
        conclusion ==
            IF failed > 0 /\ passed > 0
            THEN <<"Some tests failed. Please review the USD file and address the failing tests.">>
            ELSE IF failed > 0
            THEN <<"All tests failed. The USD file may have serious issues. Please review it thoroughly.">>
            ELSE <<"Congratulations, all tests were successful!">>
    IN  <<summary, conclusion>>

\* exportResults(filePath): the file after the call
exportResults(f, text) ==
    IF ~f.opens THEN f ELSE [f EXCEPT !.written = TRUE, !.content = text]

\* The file at usdFilePath after exportResults(filePath): std::ofstream
\* truncates the file it opens, so an output path that names the scene file
\* leaves the transcript there, which UsdStage::Open cannot open
SceneAfterExport(sc, usdFilePath, filePath, f) ==
    IF filePath = usdFilePath /\ f.opens THEN Unopenable ELSE sc

OpenFailedLine ==
    <<"Failed to open USD file. Ensure the file path is correct and the file is accessible.">>

OpenedLine == <<"Opened USD file Successfully.">>

\* ----------------------------------------------------------------- actions
\* main(), lines 740-763, up to the call of parseArguments
Main ==
    /\ pc = "main"
    /\ IF Len(argv) + 1 > 1 /\ argv[1] = "-help"
       THEN /\ helpShown' = helpShown + 1
            /\ exitStatus' = 0
            /\ pc' = "exit"
            /\ tests' = tests
       ELSE IF Len(argv) + 1 < 2
       THEN /\ helpShown' = helpShown + 1
            /\ exitStatus' = 1
            /\ pc' = "exit"
            /\ tests' = tests
       ELSE /\ tests' = MainTests
            /\ pc' = "parse"
            /\ UNCHANGED <<helpShown, exitStatus>>
    /\ UNCHANGED <<argv, config, scene, stage, opens, idx, results, output,
                   outFile, calls, probes, entry, leftStage, history, runs>>

\* parseArguments(argc, argv) as called at line 763
ParseArguments ==
    /\ pc = "parse"
    /\ LET r == parseArguments(argv)
       IN  /\ helpShown' = helpShown + r.helps
           /\ config' = r.config
           /\ exitStatus' = r.status
           /\ pc' = IF r.status = -1 THEN "ready" ELSE "exit"
    /\ UNCHANGED <<argv, tests, scene, stage, opens, idx, results, output,
                   outFile, calls, probes, entry, leftStage, history, runs>>

\* RunTestsOpen without the return at line 112: the loop is entered with the
\* null stage
RunTestsOpenNoReturn ==
    /\ pc = "ready"
    /\ runs' = runs + 1
    /\ opens' = opens + 1
    /\ results' = <<>>
    /\ calls' = <<>>
    /\ idx' = 1
    /\ stage' = Open(scene)
    /\ output' = IF Open(scene).null THEN <<OpenFailedLine>> ELSE <<OpenedLine>>
    /\ pc' = "loop"
    /\ history' = history
    /\ UNCHANGED <<argv, exitStatus, helpShown, config, tests, scene,
                   outFile, probes, entry, leftStage>>

\* RunTestsOpen without results.clear() at line 104
RunTestsOpenKeepsResults ==
    /\ pc = "ready"
    /\ runs' = runs + 1
    /\ opens' = opens + 1
    /\ results' = results
    /\ calls' = <<>>
    /\ idx' = 1
    /\ stage' = Open(scene)
    /\ IF Open(scene).null
       THEN /\ output' = <<OpenFailedLine>>
            /\ pc' = "returned"
            /\ history' = Append(history, <<>>)
       ELSE /\ output' = <<OpenedLine>>
            /\ pc' = "loop"
            /\ history' = history
    /\ UNCHANGED <<argv, exitStatus, helpShown, config, tests, scene,
                   outFile, probes, entry, leftStage>>

\* runTests, lines 102-117: clear, open the stage, print the status line
RunTestsOpen ==
    /\ pc = "ready"
    /\ runs' = runs + 1
    /\ opens' = opens + 1
    /\ results' = <<>>
    /\ calls' = <<>>
    /\ idx' = 1
    /\ stage' = Open(scene)
    /\ IF Open(scene).null
       THEN /\ output' = <<OpenFailedLine>>
            /\ pc' = "returned"
            /\ history' = Append(history, <<>>)
       ELSE /\ output' = <<OpenedLine>>
            /\ pc' = "loop"
            /\ history' = history
    /\ UNCHANGED <<argv, exitStatus, helpShown, config, tests, scene,
                   outFile, probes, entry, leftStage>>

\* report(result) after test(stage) at lines 124-125
Report(result) ==
    /\ results' = Append(results, result)
    /\ output' = Append(output, ResultLine(result))
    /\ calls' = Append(calls, idx)
    /\ idx' = idx + 1

InLoop(test) ==
    /\ pc = "loop"
    /\ idx <= Len(tests)
    /\ Selected(tests[idx].id, config)
    /\ tests[idx].test = test

RunGeometry ==
    /\ InLoop("validateGeometry")
    /\ Report(validateGeometry(stage))
    /\ UNCHANGED <<argv, pc, exitStatus, helpShown, config, tests, scene,
                   stage, opens, outFile, probes, entry, leftStage, history,
                   runs>>

RunShaders ==
    /\ InLoop("validateShaders")
    /\ Report(validateShaders(stage))
    /\ UNCHANGED <<argv, pc, exitStatus, helpShown, config, tests, scene,
                   stage, opens, outFile, probes, entry, leftStage, history,
                   runs>>

RunLayers ==
    /\ InLoop("validateLayerStructure")
    /\ Report(validateLayerStructure(stage))
    /\ UNCHANGED <<argv, pc, exitStatus, helpShown, config, tests, scene,
                   stage, opens, outFile, probes, entry, leftStage, history,
                   runs>>

RunVariants ==
    /\ InLoop("validateVariants")
    /\ LET r == validateVariants(stage)
       IN  /\ Report(r.result)
           /\ stage' = r.stage
           /\ probes' = r.log
           /\ entry' = stage
           /\ leftStage' = r.stage
    /\ UNCHANGED <<argv, pc, exitStatus, helpShown, config, tests, scene,
                   opens, outFile, history, runs>>

\* An entry whose condition at lines 120-123 is false
SkipTest ==
    /\ pc = "loop"
    /\ idx <= Len(tests)
    /\ ~Selected(tests[idx].id, config)
    /\ idx' = idx + 1
    /\ UNCHANGED <<argv, pc, exitStatus, helpShown, config, tests, scene,
                   stage, opens, results, output, outFile, calls, probes,
                   entry, leftStage, history, runs>>

\* summarize() at line 129, after the loop
Summarize ==
    /\ pc = "loop"
    /\ idx > Len(tests)
    /\ output' = output \o summarize(results)
    /\ pc' = "export"
    /\ UNCHANGED <<argv, exitStatus, helpShown, config, tests, scene, stage,
                   opens, idx, results, outFile, calls, probes, entry,
                   leftStage, history, runs>>

\* Lines 131-135: export when an output path is given, then return
Export ==
    /\ pc = "export"
    /\ outFile' = IF config.outputPath # ""
                  THEN exportResults(outFile, output)
                  ELSE outFile
    /\ scene' = IF config.outputPath # ""
                THEN SceneAfterExport(scene, argv[1], config.outputPath, outFile)
                ELSE scene
    /\ history' = Append(history, results)
    /\ stage' = NullStage
    /\ pc' = "returned"
    /\ UNCHANGED <<argv, exitStatus, helpShown, config, tests, opens, idx,
                   results, output, calls, probes, entry, leftStage, runs>>

\* main() returns 0 after runTests (line 766)
MainReturn ==
    /\ pc = "returned"
    /\ exitStatus' = 0
    /\ pc' = "exit"
    /\ UNCHANGED <<argv, helpShown, config, tests, scene, stage, opens, idx,
                   results, output, outFile, calls, probes, entry, leftStage,
                   history, runs>>

\* The holder of a TestRunner calls runTests once more
CallAgain ==
    /\ pc = "returned"
    /\ runs < MaxRuns
    /\ pc' = "ready"
    /\ UNCHANGED <<argv, exitStatus, helpShown, config, tests, scene, stage,
                   opens, idx, results, output, outFile, calls, probes,
                   entry, leftStage, history, runs>>

\* ------------------------------------------------- analyzers on a held stage
\* A caller that holds a stage calls the analyzers on it in the order of
\* main()'s registry, the whole set again after the last one
OnHandle(test) ==
    /\ pc = "handle"
    /\ runs < MaxRuns
    /\ tests[idx].test = test

\* The caller keeps the TestResult; a completed set goes to history
Collect(result) ==
    LET collected == Append(results, result)
    IN  IF idx = Len(tests)
        THEN /\ results' = <<>>
             /\ history' = Append(history, collected)
             /\ idx' = 1
             /\ runs' = runs + 1
        ELSE /\ results' = collected
             /\ idx' = idx + 1
             /\ UNCHANGED <<history, runs>>

CallGeometry ==
    /\ OnHandle("validateGeometry")
    /\ Collect(validateGeometry(stage))
    /\ UNCHANGED <<argv, pc, exitStatus, helpShown, config, tests, scene,
                   stage, opens, output, outFile, calls, probes, entry,
                   leftStage>>

CallShaders ==
    /\ OnHandle("validateShaders")
    /\ Collect(validateShaders(stage))
    /\ UNCHANGED <<argv, pc, exitStatus, helpShown, config, tests, scene,
                   stage, opens, output, outFile, calls, probes, entry,
                   leftStage>>

CallLayers ==
    /\ OnHandle("validateLayerStructure")
    /\ Collect(validateLayerStructure(stage))
    /\ UNCHANGED <<argv, pc, exitStatus, helpShown, config, tests, scene,
                   stage, opens, output, outFile, calls, probes, entry,
                   leftStage>>

CallVariants ==
    /\ OnHandle("validateVariants")
    /\ LET r == validateVariants(stage)
       IN  /\ Collect(r.result)
           /\ stage' = r.stage
           /\ probes' = r.log
           /\ entry' = stage
           /\ leftStage' = r.stage
    /\ UNCHANGED <<argv, pc, exitStatus, helpShown, config, tests, scene,
                   opens, output, outFile, calls>>

\* ---------------------------------------------------------- specifications
Tokens == {"scene.usd", "out.txt"} \cup DashTokens

FlagOrder ==
    <<"-only-geometry", "-only-shaders", "-only-layers", "-only-variants",
      "-skip-geometry", "-skip-shaders", "-skip-layers", "-skip-variants", "-help">>

\* Every argument list of up to MaxArgs tokens, and the scene path followed
\* by every set of flags, with and without an output path
ArgLists ==
    SeqsUpTo(Tokens, MaxArgs)
    \cup { <<"scene.usd">> \o SelectSeq(FlagOrder, LAMBDA t : t \in S) \o tail :
             S \in SUBSET KnownFlags, tail \in {<<>>, <<"-output", "out.txt">>} }

CliScenes ==
    { Unopenable,
      [Scene(<<[Mesh("/v") EXCEPT !.axes = <<Axis("shape", <<"A">>, "A")>>]>>,
             GoodStack) EXCEPT !.applies = <<TRUE, TRUE>>] }

Flags4 == [runGeometry : BOOLEAN, runShaders : BOOLEAN, runLayers : BOOLEAN,
           runVariants : BOOLEAN, outputPath : {"", "out.txt"}]

File(opening) == [opens |-> opening, written |-> FALSE, content |-> <<>>]

\* Registry entries: the four of main(), an identifier no flag names, and
\* an identifier registered with another analyzer
Entries ==
    {MainTests[i] : i \in 1..4}
    \cup {[id |-> "other", test |-> "validateGeometry"],
          [id |-> "geometry", test |-> "validateShaders"]}

InitRunner ==
    /\ exitStatus = -1
    /\ helpShown = 0
    /\ opens = 0
    /\ idx = 1
    /\ results = <<>>
    /\ output = <<>>
    /\ calls = <<>>
    /\ probes = <<>>
    /\ entry = NullStage
    /\ stage = NullStage
    /\ leftStage = NullStage
    /\ history = <<>>
    /\ runs = 0

\* The process as started from the command line
InitCli ==
    /\ InitRunner
    /\ argv \in ArgLists
    /\ pc = "main"
    /\ config = TestConfig
    /\ tests = <<>>
    /\ scene \in CliScenes
    /\ outFile = File(TRUE)

\* A runner holding main()'s registry, called on every scene
InitRun ==
    /\ InitRunner
    /\ argv = <<"scene.usd">>
    /\ pc = "ready"
    /\ config \in {c \in Flags4 : hasEnabledTests(c)}
    /\ tests = MainTests
    /\ scene \in Scenes
    /\ outFile \in {File(TRUE), File(FALSE)}

\* A runner holding any registry, called with any configuration that enables
\* a test
InitSelect ==
    /\ InitRunner
    /\ argv = <<"scene.usd">>
    /\ pc = "ready"
    /\ config \in {c \in Flags4 : hasEnabledTests(c) /\ c.outputPath = ""}
    /\ tests \in SeqsUpTo(Entries, MaxTests) \cup {MainTests}
    /\ scene \in CliScenes
    /\ outFile = File(TRUE)

\* A caller that opened a scene and holds the stage
InitHandle ==
    /\ argv = <<"scene.usd">>
    /\ pc = "handle"
    /\ exitStatus = -1
    /\ helpShown = 0
    /\ config = TestConfig
    /\ tests = MainTests
    /\ scene \in {sc \in Scenes : sc.openable}
    /\ stage = Open(scene)
    /\ opens = 1
    /\ idx = 1
    /\ results = <<>>
    /\ output = <<>>
    /\ outFile = File(TRUE)
    /\ calls = <<>>
    /\ probes = <<>>
    /\ entry = NullStage
    /\ leftStage = NullStage
    /\ history = <<>>
    /\ runs = 0

NextRunTests ==
    \/ RunTestsOpen
    \/ RunGeometry
    \/ RunShaders
    \/ RunLayers
    \/ RunVariants
    \/ SkipTest
    \/ Summarize
    \/ Export

NextCli == Main \/ ParseArguments \/ NextRunTests \/ MainReturn

NextRun == NextRunTests \/ CallAgain

SpecCli == InitCli /\ [][NextCli]_vars

SpecRun == InitRun /\ [][NextRun]_vars

SpecSelect == InitSelect /\ [][NextRun]_vars

NextHandle == CallGeometry \/ CallShaders \/ CallLayers \/ CallVariants

SpecHandle == InitHandle /\ [][NextHandle]_vars

\* ------------------------------------------------------------------ claims
\* The variant sets of a stage, each as <<prim, set>>
AxesOf(sc) ==
    UNION {{<<n, a>> : a \in DOMAIN sc.nodes[n].axes} : n \in DOMAIN sc.nodes}

SelectionAt(sc, na) == sc.nodes[na[1]].axes[na[2]].selection

\* validateVariants has run at least once (entry is the stage it was given)
Validated == ~entry.null

\* C1: a variant set whose selection was a non-empty value when
\* validateVariants was entered holds that value when validateVariants has
\* returned, whatever the probes of the walk did.
C1_NonEmptySelectionRestored ==
    Validated =>
        \A na \in AxesOf(entry) :
            SelectionAt(entry, na) # "" =>
                SelectionAt(leftStage, na) = SelectionAt(entry, na)

\* C2: when validateVariants has returned, every variant set of every prim
\* holds the selection it held on entry, the sets without a selection
\* included.
C2_EverySelectionAsOnEntry ==
    Validated =>
        \A na \in AxesOf(entry) : SelectionAt(leftStage, na) = SelectionAt(entry, na)

\* C3: the second of two runs of the full analyzer set on one held stage
\* reports, for each analyzer, the passed flag and the message the first
\* run reported.
C3_SecondRunRepeatsFirst ==
    (/\ pc = "handle"
     /\ Len(history) >= 2
     /\ tests = MainTests
     /\ config.runGeometry /\ config.runShaders /\ config.runLayers
     /\ config.runVariants) =>
        /\ Len(history[2]) = Len(history[1])
        /\ \A k \in DOMAIN history[1] :
              /\ history[2][k].passed = history[1][k].passed
              /\ history[2][k].message = history[1][k].message

\* The run flag an identifier names, FALSE for an identifier no flag names
FlagOf(id, c) ==
    CASE id = "geometry" -> c.runGeometry
      [] id = "shaders" -> c.runShaders
      [] id = "layers" -> c.runLayers
      [] id = "variants" -> c.runVariants
      [] OTHER -> FALSE

\* The registry positions below k whose flag is true, in registration order
Flagged(k) ==
    SelectSeq([i \in 1..(k - 1) |-> i], LAMBDA i : FlagOf(tests[i].id, config))

TestNameOf(test) ==
    CASE test = "validateGeometry" -> "Validate Geometry"
      [] test = "validateShaders" -> "Validate Shaders"
      [] test = "validateLayerStructure" -> "Validate Layer Structure"
      [] test = "validateVariants" -> "Validate Variants"

\* C4: on an opened scene runTests invokes exactly the registered entries
\* whose identifier's flag is true, each once and in registration order, and
\* records one result per invocation, produced by that entry's analyzer.
C4_InvokesExactlyFlaggedInOrder ==
    (pc \in {"loop", "export", "returned"} /\ ~Open(scene).null) =>
        /\ calls = Flagged(IF pc = "loop" THEN idx ELSE Len(tests) + 1)
        /\ Len(results) = Len(calls)
        /\ \A k \in DOMAIN calls :
              results[k].testName = TestNameOf(tests[calls[k]].test)

\* C4 witness: a run of main()'s registry that skipped two entries and
\* invoked the other two, and a run that invoked an identifier registered
\* twice.
C4_Witness ==
    /\ pc = "returned"
    /\ \/ tests = MainTests /\ calls = <<2, 4>>
       \/ Len(tests) = 2 /\ tests[1].id = tests[2].id /\ calls = <<1, 2>>

\* ------------------------------------------------- claims on the command line
\* The token at position i is the value of an -output before it
RECURSIVE OutputValueAt(_, _)
OutputValueAt(av, i) ==
    i > 1 /\ av[i - 1] = "-output" /\ ~OutputValueAt(av, i - 1)

\* The tokens given as flags: every token that is not the value of an -output
GivenFlags(av) == {av[i] : i \in {j \in DOMAIN av : ~OutputValueAt(av, j)}}

\* parseArguments has been called and has returned or exited
Parsed == pc \notin {"main", "parse"} /\ tests = MainTests

\* The argument list passes the -help and scene path checks
PathGiven == "-help" \notin GivenFlags(argv) /\ argv # <<>> /\ argv[1] \notin DashTokens

NoRunYet == opens = 0 /\ calls = <<>> /\ results = <<>>

\* C5: with no -only-* flag given, the run flag of a category is false
\* exactly when its own -skip-* flag is given.
C5_SkipFlagsNotAliased ==
    (Parsed /\ PathGiven /\ GivenFlags(argv) \cap OnlyFlags = {}) =>
        /\ config.runGeometry = ("-skip-geometry" \notin GivenFlags(argv))
        /\ config.runShaders = ("-skip-shaders" \notin GivenFlags(argv))
        /\ config.runLayers = ("-skip-layers" \notin GivenFlags(argv))
        /\ config.runVariants = ("-skip-variants" \notin GivenFlags(argv))

\* C6: an argument list with an -only-* flag and a -skip-* flag is rejected
\* with status 1 before the scene is opened and before any analyzer runs.
C6_OnlyWithSkipRejected ==
    (/\ Parsed
     /\ PathGiven
     /\ GivenFlags(argv) \cap OnlyFlags # {}
     /\ GivenFlags(argv) \cap SkipFlags # {}) =>
        pc = "exit" /\ exitStatus = 1 /\ NoRunYet

OnlyConfig(flag) ==
    [TestConfig EXCEPT !.runGeometry = (flag = "-only-geometry"),
                       !.runShaders = (flag = "-only-shaders"),
                       !.runLayers = (flag = "-only-layers"),
                       !.runVariants = (flag = "-only-variants")]

\* C7: a scene path followed by one -only-X flag is accepted and yields the
\* configuration in which exactly the run flag of X is true.
C7_SingleOnlyFlagAccepted ==
    \A flag \in OnlyFlags :
        (Parsed /\ argv = <<"scene.usd", flag>>) =>
            exitStatus # 1 /\ config = OnlyConfig(flag)

\* C8: when the flags given disable all four analyzers the process exits
\* with status 1 before any scene is opened, and runTests is never entered
\* with all four run flags false.
C8_AllDisabledRejected ==
    /\ (Parsed /\ PathGiven /\ SkipFlags \subseteq GivenFlags(argv)) =>
           pc = "exit" /\ exitStatus = 1 /\ NoRunYet
    /\ pc \in {"ready", "loop", "export", "returned"} => hasEnabledTests(config)

HelpOutcome == pc = "exit" /\ exitStatus = 0 /\ helpShown = 1 /\ NoRunYet

\* C9 as stated: whenever the token -help is at any position of the argument
\* list, the process prints help and exits 0 without opening the scene,
\* running an analyzer or making another flag check.
C9_HelpAtAnyPosition ==
    (pc \notin {"main", "parse"} /\ \E i \in DOMAIN argv : argv[i] = "-help") =>
        HelpOutcome

\* C9 as amended: whenever -help is given as a flag, at any position that
\* is not the value of an -output, the process prints help once and exits 0
\* without opening the scene, running an analyzer or making another check.
C9_HelpFlagShortCircuits ==
    (pc \notin {"main", "parse"} /\ "-help" \in GivenFlags(argv)) => HelpOutcome

\* C9 witness: help was printed and the process exited 0 on a list that has
\* no scene path, an -only-* flag and a -skip-* flag before the -help.
C9_Witness ==
    /\ HelpOutcome
    /\ Len(argv) = 3
    /\ argv[1] \in OnlyFlags /\ argv[2] \in SkipFlags /\ argv[3] = "-help"

\* The transcript of a run: the open-status line, one result line for each
\* analyzer executed, in order, then the summary and the verdict
Transcript ==
    IF Open(scene).null THEN <<OpenFailedLine>>
    ELSE <<OpenedLine>> \o [k \in DOMAIN results |-> ResultLine(results[k])]
         \o summarize(results)

\* C10: after a run with a non-empty output path that can be opened for
\* writing, the file holds the transcript of that run and nothing else.
C10_FileHoldsTranscript ==
    (pc = "returned" /\ config.outputPath # "" /\ outFile.opens) =>
        outFile.written /\ outFile.content = Transcript

\* ------------------------------------------------- claims on the analyzers
\* The errors an analyzer has accumulated when its traversal ends
Findings(test, st) ==
    CASE test = "validateGeometry" -> GeometryFindings(st)
      [] test = "validateShaders" -> ShaderFindings(st)
      [] test = "validateLayerStructure" -> LayerFindings(st.layers)
      [] test = "validateVariants" -> validateVariants(st).errors

\* The analyzer gets past its hard preconditions on the stage
PastPreconditions(test, st) ==
    /\ test = "validateGeometry" => st.root
    /\ test = "validateLayerStructure" => (st.layers # <<>> /\ ~st.layers[1].null)

\* C11: each analyzer that gets past its hard preconditions fails exactly
\* when its traversal accumulated at least one finding, also when no
\* geometry, shader or variant set was seen.
C11_FailsIffFindingAccumulated ==
    [][(/\ pc = "loop"
        /\ Len(results') = Len(results) + 1
        /\ PastPreconditions(tests[idx].test, stage)) =>
           (results'[Len(results')].passed
               = (Findings(tests[idx].test, stage) = <<>>))]_vars

\* The single message of a hard precondition failure of
\* validateLayerStructure on a stage, <<>> when the stage has none
HardFailure(st) ==
    IF st.layers = <<>> THEN <<<<"Layer stack is empty.">>>>
    ELSE IF st.layers[1].null THEN <<<<"The first layer in the stack is null.">>>>
    ELSE <<>>

\* C12: when the scene does not open, runTests invokes no analyzer and
\* records no result, whatever the configuration; when the layer stack is
\* empty or its root layer is null, validateLayerStructure alone ends with a
\* failure of one message, and every selected analyzer, the later ones
\* included, is invoked.
C12_OpenFailureAbortsPreconditionDoesNot ==
    /\ Open(scene).null =>
          /\ pc \in {"ready", "returned"}
          /\ calls = <<>>
          /\ results = <<>>
    /\ (~Open(scene).null /\ HardFailure(Open(scene)) # <<>>) =>
          /\ \A k \in DOMAIN results :
                IF tests[calls[k]].test = "validateLayerStructure"
                THEN /\ ~results[k].passed
                     /\ results[k].message = HardFailure(Open(scene))
                ELSE results[k].message # HardFailure(Open(scene))
          /\ pc \in {"export", "returned"} => calls = Flagged(Len(tests) + 1)

\* C12 witness: a run of all four analyzers on a stage whose root layer is
\* null has returned; the layer analyzer failed with its one message and the
\* variant analyzer, registered after it, was invoked and passed.
C12_Witness ==
    /\ pc = "returned"
    /\ scene.openable
    /\ scene.layers # <<>>
    /\ scene.layers[1].null
    /\ calls = <<1, 2, 3, 4>>
    /\ ~results[3].passed
    /\ results[3].message = <<<<"The first layer in the stack is null.">>>>
    /\ results[4].testName = "Validate Variants"
    /\ results[4].passed

\* The findings a failure message lists, without heading and bullets
FindingsListed(message) ==
    [i \in 1..(Len(message) - 1) |-> Tail(message[i + 1])]

\* Position of a finding in the order of the findings of one layer
Rank(finding) ==
    CASE finding[1] = "Duplicate layer identifier found: " -> 1
      [] finding[1] \in {"Unresolved sublayer: ",
                         "Broken external reference in sublayer: "} -> 2
      [] finding[1] \in {"Broken reference in layer: ", "Broken payload in layer: ",
                         "Layer at index "} -> 3
      [] OTHER -> 0

\* The findings of layer i of a stack, in the order of the claim
FindingsOfLayer(layerStack, i) ==
    LET layer == layerStack[i]
    IN  IF layer.null
        THEN <<<<"Broken reference at layer index ", ToString(i - 1)>>>>
        ELSE (IF \E j \in 1..(i - 1) :
                    ~layerStack[j].null /\ layerStack[j].id = layer.id
              THEN <<<<"Duplicate layer identifier found: ", layer.id>>>>
              ELSE <<>>)
             \o Flatten([k \in DOMAIN layer.subs |-> SubLayerErrors(layer.subs[k])])
             \o RootSpecErrors(layer, i)

\* The findings of the layers, without the finding on the root layer's
\* default prim that is recorded before the layers are walked
PerLayer(listed) ==
    IF listed # <<>> /\ listed[1][1] = "Root layer missing default prim specification: "
    THEN Tail(listed)
    ELSE listed

\* C13: the failure message of validateLayerStructure lists the findings of
\* layer i before those of layer i+1, and those of one layer in the order
\* duplicate identifier, sublayer findings in declared sublayer order,
\* root-spec findings.
C13_FindingsInStackThenKindOrder ==
    \A k \in DOMAIN results :
        (/\ results[k].testName = "Validate Layer Structure"
         /\ ~results[k].passed
         /\ HardFailure(Open(scene)) = <<>>) =>
            LET layerStack == Open(scene).layers
                blocks == [i \in DOMAIN layerStack |-> FindingsOfLayer(layerStack, i)]
            IN  /\ PerLayer(FindingsListed(results[k].message)) = Flatten(blocks)
                /\ \A i \in DOMAIN blocks : \A a, b \in DOMAIN blocks[i] :
                      a < b => Rank(blocks[i][a]) <= Rank(blocks[i][b])

\* C13 witness: a failure message in which one layer has a duplicate
\* identifier, a sublayer finding and a root-spec finding, followed by the
\* findings of a later layer.
C13_Witness ==
    \E k \in DOMAIN results :
        /\ results[k].testName = "Validate Layer Structure"
        /\ ~results[k].passed
        /\ LET listed == FindingsListed(results[k].message)
           IN  \E a \in DOMAIN listed :
                  /\ a + 3 <= Len(listed)
                  /\ Rank(listed[a]) = 1
                  /\ Rank(listed[a + 1]) = 2
                  /\ Rank(listed[a + 2]) = 3
                  /\ Rank(listed[a + 3]) = 1

\* ------------------------------------------------- claims on the variant walk
\* The variants validateVariants has to probe on the stage it was given, as
\* <<prim, set, variant>>: the non-empty names of every named set of every
\* prim the traversal finds valid, in declared order
ToProbe(st) ==
    Flatten([n \in DOMAIN st.nodes |->
        IF ~IsValid(st.nodes[n]) THEN <<>>
        ELSE Flatten([a \in DOMAIN st.nodes[n].axes |->
                 LET axis == st.nodes[n].axes[a]
                     named == SelectSeq(axis.variants, LAMBDA v : v # "")
                 IN  IF axis.name = "" THEN <<>>
                     ELSE [i \in DOMAIN named |-> <<n, a, named[i]>>]])])

\* The empty names in the variant lists of the named sets of valid prims
EmptyVariantNames(st) ==
    Flatten([n \in DOMAIN st.nodes |->
        IF ~IsValid(st.nodes[n]) THEN <<>>
        ELSE Flatten([a \in DOMAIN st.nodes[n].axes |->
                 IF st.nodes[n].axes[a].name = "" THEN <<>>
                 ELSE SelectSeq(st.nodes[n].axes[a].variants, LAMBDA v : v = "")])])

\* The error a probe recorded
ProbeError(st, probe) ==
    LET node == st.nodes[probe.node]
        axis == node.axes[probe.axis]
    IN  <<IF probe.applied
          THEN "Prim became invalid after setting variant '"
          ELSE "Failed to set variant '",
          probe.variant, "' in set '", axis.name, "' at: ", node.path>>

\* The findings of the variant analyzer's result, <<>> when it passed
VariantFindings(result) ==
    IF result.passed THEN <<>> ELSE FindingsListed(result.message)

\* C14: validateVariants sets each non-empty variant name of each named set
\* of a valid prim exactly once, in declared order; every empty variant
\* name, failed set and prim invalid after a set records one error, and the
\* variants, sets and prims after it are probed all the same.
C14_EveryVariantProbedOnceInOrder ==
    \A k \in DOMAIN results :
        results[k].testName = "Validate Variants" =>
            LET listed == VariantFindings(results[k])
                walked == SelectSeq(probes, LAMBDA p : ~p.restoring)
                erring == SelectSeq(walked, LAMBDA p : ~p.applied \/ ~p.resolved)
            IN  /\ [i \in DOMAIN walked |->
                        <<walked[i].node, walked[i].axis, walked[i].variant>>]
                      = ToProbe(entry)
                /\ SelectSeq(listed, LAMBDA f :
                        f[1] \in {"Failed to set variant '",
                                  "Prim became invalid after setting variant '"})
                      = [i \in DOMAIN erring |-> ProbeError(entry, erring[i])]
                /\ Len(SelectSeq(listed, LAMBDA f : f[1] = "Empty variant name in set '"))
                      = Len(EmptyVariantNames(entry))

\* C14 witness: in one walk a set failed, the next name of the set was
\* empty, the set after it applied and left the prim invalid, and the walk
\* went on to a later set of that prim and to the sets of a later prim; the
\* result lists the three errors in that order.
C14_Witness ==
    /\ \E k \in DOMAIN results :
          /\ results[k].testName = "Validate Variants"
          /\ LET listed == VariantFindings(results[k])
             IN  /\ Len(listed) >= 3
                 /\ listed[1][1] = "Failed to set variant '"
                 /\ listed[2][1] = "Empty variant name in set '"
                 /\ listed[3][1] = "Prim became invalid after setting variant '"
    /\ LET walked == SelectSeq(probes, LAMBDA p : ~p.restoring)
       IN  \E i, j, l, m \in DOMAIN walked :
              /\ i < j /\ j < l /\ l < m
              /\ ~walked[i].applied
              /\ walked[j].node = walked[i].node
              /\ walked[j].axis = walked[i].axis
              /\ walked[j].applied
              /\ ~walked[j].resolved
              /\ walked[l].node = walked[j].node
              /\ walked[l].axis > walked[j].axis
              /\ walked[m].node > walked[j].node

\* ------------------------------------------------------ claims on the summary
AllSuccessful == <<"Congratulations, all tests were successful!">>

AllFailed ==
    <<"All tests failed. The USD file may have serious issues. Please review it thoroughly.">>

SomeFailed ==
    <<"Some tests failed. Please review the USD file and address the failing tests.">>

\* The analyzers invoked in the present call whose result, among the results
\* appended since the call began, is that analyzer's and has the given
\* passed flag
ExecutedWith(pass) ==
    Cardinality({k \in DOMAIN calls :
                    LET result == results[Len(results) - Len(calls) + k]
                    IN  result.testName = TestNameOf(tests[calls[k]].test)
                        /\ result.passed = pass})

\* C15: when runTests has summarized an opened scene, the printed counts are
\* those of the analyzers executed in this call, they add up to the number
\* of analyzers executed, and the verdict is the all-successful sentence
\* exactly when none failed, the all-failed sentence exactly when some
\* failed and none passed, and the some-failed sentence otherwise.
C15_SummaryCountsThisCall ==
    (pc \in {"export", "returned"} /\ ~Open(scene).null) =>
        LET summary == output[Len(output) - 1]
            verdict == output[Len(output)]
            passed == ExecutedWith(TRUE)
            failed == ExecutedWith(FALSE)
        IN  /\ summary = <<"Summary:", "  Passed: ", ToString(passed),
                           "  Failed: ", ToString(failed)>>
            /\ passed + failed = Len(calls)
            /\ verdict \in {AllSuccessful, AllFailed, SomeFailed}
            /\ verdict = AllSuccessful <=> failed = 0
            /\ verdict = AllFailed <=> (failed > 0 /\ passed = 0)
            /\ verdict = SomeFailed <=> (failed > 0 /\ passed > 0)

\* C15 witness: the second call on a runner has returned after executing
\* three analyzers, one of which failed, and says that some tests failed.
C15_Witness ==
    /\ pc = "returned"
    /\ runs = 2
    /\ Len(history[1]) = 3
    /\ Len(calls) = 3
    /\ ExecutedWith(FALSE) = 1
    /\ output[Len(output)] = SomeFailed
====
